---- MODULE Spec2Model ----
(***************************************************************************)
(* Model of AzureBlobDataSource (datasources/azure_blob/datasources/       *)
(* azure_blob.py): the browse handler with its virtual-directory           *)
(* flattening, and the download handler with its three transfer            *)
(* strategies.                                                             *)
(*                                                                         *)
(* Text (Python str) is a sequence of one-character strings.  Byte         *)
(* payloads are represented by their length only.  The storage provider    *)
(* (SDK calls, HTTP GET) is the environment: each call's outcome is a      *)
(* nondeterministic choice.  A yielded message keeps its payload length   *)
(* and the is_partial key of its metadata; file_name, mime_type and the   *)
(* metadata of listed entries are not modelled, and max_keys is read but   *)
(* never used by the handlers.  A handler that yields between provider     *)
(* calls is stepped one loop iteration at a time.                          *)
(***************************************************************************)
EXTENDS Integers, Sequences, FiniteSets, TLC

\* ------------------------------------------------------------------------
\* Bounds of the model
\* ------------------------------------------------------------------------
\* largest declared blob size, in 8 MiB ranges
MaxRanges == 15
\* longest download id
MaxIdLen == 3
\* most entries in one provider page
MaxPage == 2

\* ------------------------------------------------------------------------
\* Python values
\* ------------------------------------------------------------------------
None == "None"

MiB == 1024 * 1024

\* 8 * 1024 * 1024 (both streaming paths)
chunk_size == 8 * MiB

\* 50 * 1024 * 1024: single-shot / chunked switch, and SAS one-shot limit
SmallLimit == 50 * MiB

\* 100 * 1024 * 1024: accumulation threshold of both streaming paths
FlushLimit == 100 * MiB

Min(a, b) == IF a < b THEN a ELSE b

\* ------------------------------------------------------------------------
\* Text operations (str methods used by the handlers)
\* ------------------------------------------------------------------------
SLASH == "/"

\* '/' in s
Contains(s, ch) == \E k \in 1..Len(s) : s[k] = ch

\* index of the first ch in s (0 when absent)
FirstIndex(s, ch) ==
    IF Contains(s, ch)
    THEN CHOOSE k \in 1..Len(s) : s[k] = ch /\ \A j \in 1..(k - 1) : s[j] # ch
    ELSE 0

\* s.split(ch, 1)[0]
SplitOnceHead(s, ch) ==
    IF Contains(s, ch) THEN SubSeq(s, 1, FirstIndex(s, ch) - 1) ELSE s

\* s.split(ch, 1)[1]  (only used when ch is in s)
SplitOnceTail(s, ch) == SubSeq(s, FirstIndex(s, ch) + 1, Len(s))

\* s.startswith(p)
StartsWith(s, p) == Len(p) <= Len(s) /\ SubSeq(s, 1, Len(p)) = p

\* s.endswith("/")
EndsWithSlash(s) == Len(s) > 0 /\ s[Len(s)] = SLASH

\* s.rstrip("/")
RECURSIVE RStripSlash(_)
RStripSlash(s) ==
    IF EndsWithSlash(s) THEN RStripSlash(SubSeq(s, 1, Len(s) - 1)) ELSE s

\* s.lstrip("/")
RECURSIVE LStripSlash(_)
LStripSlash(s) ==
    IF Len(s) > 0 /\ s[1] = SLASH THEN LStripSlash(Tail(s)) ELSE s

\* s.strip("/")
StripSlash(s) == LStripSlash(RStripSlash(s))

\* s.split("/"): the list of segments (always at least one)
RECURSIVE SplitSlash(_)
SplitSlash(s) ==
    IF Contains(s, SLASH)
    THEN <<SplitOnceHead(s, SLASH)>> \o SplitSlash(SplitOnceTail(s, SLASH))
    ELSE <<s>>

\* "/".join(parts)
RECURSIVE JoinSlash(_)
JoinSlash(parts) ==
    IF Len(parts) = 0 THEN <<>>
    ELSE IF Len(parts) = 1 THEN parts[1]
    ELSE parts[1] \o <<SLASH>> \o JoinSlash(Tail(parts))

\* str.lower() on the letters that occur in tier names
LowerChar(c) ==
    CASE c = "A" -> "a"
      [] c = "R" -> "r"
      [] c = "C" -> "c"
      [] c = "H" -> "h"
      [] c = "I" -> "i"
      [] c = "V" -> "v"
      [] c = "E" -> "e"
      [] c = "O" -> "o"
      [] c = "T" -> "t"
      [] OTHER -> c

Lower(s) == [k \in 1..Len(s) |-> LowerChar(s[k])]

\* all texts over alphabet of length at most n
RECURSIVE TextsOfLen(_, _)
TextsOfLen(alphabet, n) ==
    IF n = 0 THEN {<<>>}
    ELSE {Append(t, c) : t \in TextsOfLen(alphabet, n - 1), c \in alphabet}

Texts(alphabet, n) == UNION {TextsOfLen(alphabet, k) : k \in 0..n}

\* all sequences over S of length at most n
SeqsUpTo(S, n) == UNION {[1..k -> S] : k \in 0..n}

RECURSIVE SumLen(_)
SumLen(cs) == IF Len(cs) = 0 THEN 0 ELSE cs[1].len + SumLen(Tail(cs))

\* ------------------------------------------------------------------------
\* Inputs and provider outcomes
\* ------------------------------------------------------------------------
\* credentials.get("auth_method"): None stands for a missing key
AuthMethods == {None, "account_key", "sas_token", "connection_string", "oauth", "ldap"}

\* self.runtime.credentials: account_name and sas_token only matter to SAS
CredentialSets ==
    {[auth_method |-> m, account_name |-> "acct", sas_token |-> None] :
        m \in AuthMethods \ {"sas_token"}}
    \cup
    {[auth_method |-> "sas_token", account_name |-> "acct", sas_token |-> t] :
        t \in {None, "", "sv=sig"}}
    \cup
    {[auth_method |-> "sas_token", account_name |-> None, sas_token |-> "sv=sig"]}

\* Python truthiness of an optional string
Truthy(v) == v # None /\ v # ""

\* download ids
IdChars == {"c", SLASH}
DownloadIds == Texts(IdChars, MaxIdLen)

\* blob tiers reported by the provider (the empty text stands for None / '')
Tiers ==
    { <<>>,
      <<"H", "o", "t">>,
      <<"A", "r", "c", "h", "i", "v", "e">>,
      <<"a", "r", "c", "h", "i", "v", "e">>,
      <<"A", "R", "C", "H", "I", "V", "E">> }

archive == <<"a", "r", "c", "h", "i", "v", "e">>

\* declared sizes: around each threshold, and whole multiples of the range
DeclaredSizes ==
    {0, 5, 10 * MiB, SmallLimit, SmallLimit + 1, FlushLimit, FlushLimit + 1}
    \cup {k * chunk_size : k \in 13..MaxRanges}

\* BlobProperties as returned by get_blob_properties()
BlobPropertiesSet ==
    {[blob_tier |-> t, size_is_none |-> FALSE, size |-> n] :
        t \in Tiers, n \in DeclaredSizes \cup {-1}}
    \cup {[blob_tier |-> t, size_is_none |-> TRUE, size |-> 0] : t \in Tiers}

\* outcome of get_blob_properties(): a raised exception or a value
PropertiesOutcomes ==
    {[raises |-> e, value |-> [blob_tier |-> <<>>, size_is_none |-> TRUE, size |-> 0]] :
        e \in {"ResourceNotFoundError", "AzureError"}}
    \cup {[raises |-> None, value |-> p] : p \in BlobPropertiesSet}

\* a blob the account can hold has a container name and a blob name
Addressable(container, blob) == Len(container) > 0 /\ Len(blob) > 0

\* get_blob_client(container, blob).get_blob_properties() for one id: a name
\* the account cannot hold never yields properties; the client library
\* refuses it before any request ("ValueError") or the service fails the
\* lookup
PropertiesOutcomesFor(container, blob) ==
    IF Addressable(container, blob)
    THEN PropertiesOutcomes
    ELSE {out \in PropertiesOutcomes : out.raises # None}
         \cup {[raises |-> "ValueError",
                value |-> [blob_tier |-> <<>>, size_is_none |-> TRUE, size |-> 0]]}

\* number of bytes readall() may return for a request of `length` bytes
ReadLens(length) == {n \in {length, length - 1} : n >= 0}

\* number of bytes readall() may return for a whole-blob read
WholeReadLens(blob_size) == {n \in {blob_size, blob_size - 1, blob_size + 2, 0} : n >= 0}

\* the Content-Length header of the HTTP response
HeaderKinds == {"absent", "digits", "garbage"}

\* ------------------------------------------------------------------------
\* State
\* ------------------------------------------------------------------------
VARIABLES
    credentials,          \* self.runtime.credentials
    blob_service_client,  \* self._blob_service_client (None until resolved)
    pc,                   \* "idle", "large_loop", "sas_stream", "done"
    op,                   \* the handler of the current request
    request,              \* the current request
    container_name,       \* parsed / effective container
    blob_path,            \* parsed blob path, or effective prefix when browsing
    blob_properties,      \* <<>> or <<properties>> once the lookup returned
    strategy,             \* transfer strategy entered by _download_file
    calls,                \* provider calls issued for the current request
    chunks,               \* messages yielded to the host for the current request
    error,                \* None, or the kind of the ValueError raised
    i,                    \* offset of the next range (chunked path)
    downloaded_content,   \* len(downloaded_content) / len(buffer)
    total_downloaded,     \* cumulative bytes of the range reads
    content,              \* len(content) / len(data) of a one-shot read, -1 before
    resp,                 \* the HTTP response (SAS path)
    page,                 \* the provider page a browse call received
    response,             \* the browse response
    next_page             \* the next-page request the host holds, if any

vars == <<credentials, blob_service_client, pc, op, request, container_name,
          blob_path, blob_properties, strategy, calls, chunks, error, i,
          downloaded_content, total_downloaded, content, resp, page, response,
          next_page>>

NoResp == [status |-> 0, header |-> "absent", content_length |-> 0, remaining |-> 0]
NoPage == [items |-> <<>>, index |-> 0, next_marker |-> None,
           continuation_token |-> None]
NoResponse == [bucket |-> <<>>, files |-> <<>>, is_truncated |-> FALSE,
               next_page_parameters |-> None]
\* the host holds no next-page request
NoNextPage == [bucket |-> <<>>, prefix |-> <<>>, next_page_parameters |-> None,
               container |-> <<>>, path |-> <<>>, index |-> 0]

Init ==
    /\ credentials \in CredentialSets
    /\ blob_service_client = None
    /\ pc = "idle"
    /\ op = "none"
    /\ request = <<>>
    /\ container_name = <<>>
    /\ blob_path = <<>>
    /\ blob_properties = <<>>
    /\ strategy = "none"
    /\ calls = <<>>
    /\ chunks = <<>>
    /\ error = None
    /\ i = 0
    /\ downloaded_content = 0
    /\ total_downloaded = 0
    /\ content = -1
    /\ resp = NoResp
    /\ page = NoPage
    /\ response = NoResponse
    /\ next_page = NoNextPage

\* ------------------------------------------------------------------------
\* _get_blob_service_client
\* ------------------------------------------------------------------------
\* credentials.get("auth_method", "account_key")
AuthMethod(creds) == IF creds.auth_method = None THEN "account_key" ELSE creds.auth_method

\* TRUE when constructing the client raises: an unsupported auth_method
\* (ValueError), or sas_token.startswith on a missing token
ClientConstructionRaises(creds) ==
    \/ AuthMethod(creds) \notin {"account_key", "sas_token", "connection_string", "oauth"}
    \/ AuthMethod(creds) = "sas_token" /\ creds.sas_token = None

\* TRUE when _get_blob_service_client() raises in the current state
GetClientRaises == blob_service_client = None /\ ClientConstructionRaises(credentials)

\* the cached client after a call that did not raise
ResolvedClient == "client"

\* ------------------------------------------------------------------------
\* Messages and provider calls
\* ------------------------------------------------------------------------
\* create_blob_message(blob, meta): payload length, and the is_partial key of
\* meta ("absent" when the key is not set)
BlobMessage(n, partial) == [len |-> n, is_partial |-> partial]

Call(api, offset, length) == [api |-> api, offset |-> offset, length |-> length]

\* the fields every new request resets
StartRequest(kind, req) ==
    /\ op' = kind
    /\ request' = req
    /\ next_page' = NoNextPage

NoLoop ==
    /\ i' = 0
    /\ downloaded_content' = 0
    /\ total_downloaded' = 0

\* every variable a download step decides, outside the request itself
Settle(client, props, strat, cs, chs, err, nextpc, r, read) ==
    /\ blob_service_client' = client
    /\ blob_properties' = props
    /\ strategy' = strat
    /\ calls' = cs
    /\ chunks' = chs
    /\ error' = err
    /\ pc' = nextpc
    /\ resp' = r
    /\ content' = read
    /\ page' = NoPage
    /\ response' = NoResponse
    /\ NoLoop

\* ------------------------------------------------------------------------
\* _download_file, with _download_small_blob and the head of
\* _download_via_sas_http (up to the first read of the streamed body)
\* ------------------------------------------------------------------------
\* variant: the tier compared without lower()
IsArchiveCaseSensitive(props) == props.blob_tier = archive

\* blob_tier and blob_tier.lower() == 'archive'
IsArchive(props) == Len(props.blob_tier) > 0 /\ Lower(props.blob_tier) = archive

\* blob_size is None or blob_size < 0
InvalidSize(props) == props.size_is_none \/ props.size < 0

\* variant: the switch taken at 50 MiB itself
UseLargeDownloadInclusive(blob_size) == blob_size >= SmallLimit

\* blob_size > 50 * 1024 * 1024
UseLargeDownload(blob_size) == blob_size > SmallLimit

\* int(content_length_header) if content_length_header else 0, 0 on a parse error
ContentLength(header, body_len) == IF header = "digits" THEN body_len ELSE 0

\* 0 < content_length <= 50 * 1024 * 1024
SasOneShot(content_length) == 0 < content_length /\ content_length <= SmallLimit

PropertiesCall == Call("get_blob_properties", -1, -1)
HttpGetCall == Call("http_get", -1, -1)
WholeReadCall == Call("download_blob", -1, -1)

\* variant: the size mismatch hardened into the rejection test
ContentRejectedOnMismatch(actual_size, declared_size) == actual_size # declared_size

\* `if not content` of _download_small_blob; a size mismatch is only logged
ContentRejected(actual_size, declared_size) == actual_size = 0

\* _download_small_blob(blob_client, blob_path, content_type, blob_size)
DownloadSmallBlob(props) ==
    LET cs == <<PropertiesCall, WholeReadCall>>
        p == <<props>>
    IN  \/ \* download_blob() / readall() raises
           Settle(ResolvedClient, p, "small", cs, <<>>, "read_failed", "done", NoResp, -1)
        \/ \E actual_size \in WholeReadLens(props.size) :
              IF ContentRejected(actual_size, props.size)
              THEN Settle(ResolvedClient, p, "small", cs, <<>>, "empty_content",
                          "done", NoResp, actual_size)
              ELSE Settle(ResolvedClient, p, "small", cs,
                          <<BlobMessage(actual_size, "absent")>>, None, "done", NoResp,
                          actual_size)

\* _download_via_sas_http(container_name, blob_path), to its first body read
DownloadViaSasHttp(props) ==
    LET p == <<props>>
        got == <<PropertiesCall, HttpGetCall>>
    IN  IF ~Truthy(credentials.account_name)
        THEN Settle(ResolvedClient, p, "sas_http", <<PropertiesCall>>, <<>>,
                    "account_name_missing", "done", NoResp, -1)
        ELSE IF ~Truthy(credentials.sas_token)
        THEN Settle(ResolvedClient, p, "sas_http", <<PropertiesCall>>, <<>>,
                    "sas_token_missing", "done", NoResp, -1)
        ELSE
            \/ \* requests.get raises (timeout, connection error)
               Settle(ResolvedClient, p, "sas_http", got, <<>>, "request_failed",
                      "done", NoResp, -1)
            \/ \* resp.raise_for_status() on a non-2xx status
               \E status \in {403, 404} :
                  Settle(ResolvedClient, p, "sas_http", got, <<>>, "http_status", "done",
                         [status |-> status, header |-> "absent", content_length |-> 0,
                          remaining |-> 0], -1)
            \/ \E header \in HeaderKinds :
                  LET body_len == props.size
                      content_length == ContentLength(header, body_len)
                  IN  IF SasOneShot(content_length)
                      THEN Settle(ResolvedClient, p, "sas_http", got,
                                  <<BlobMessage(body_len, "absent")>>, None, "done",
                                  [status |-> 200, header |-> header,
                                   content_length |-> content_length, remaining |-> 0],
                                  body_len)
                      ELSE Settle(ResolvedClient, p, "sas_http", got, <<>>, None,
                                  "sas_stream",
                                  [status |-> 200, header |-> header,
                                   content_length |-> content_length,
                                   remaining |-> body_len], -1)

\* strategy selection of _download_file once the properties passed validation
SelectStrategy(props) ==
    IF AuthMethod(credentials) = "sas_token"
    THEN DownloadViaSasHttp(props)
    ELSE IF UseLargeDownload(props.size)
    THEN Settle(ResolvedClient, <<props>>, "large", <<PropertiesCall>>, <<>>, None,
                "large_loop", NoResp, -1)
    ELSE DownloadSmallBlob(props)

\* variant: only the empty id rejected
InvalidFileIdEmptyOnly(file_id) == Len(file_id) = 0

\* '/' not in file_id
InvalidFileId(file_id) == ~Contains(file_id, SLASH)

DownloadFile ==
    /\ pc = "idle"
    /\ next_page = NoNextPage
    /\ \E file_id \in DownloadIds :
          /\ StartRequest("download", file_id)
          /\ credentials' = credentials
          /\ IF InvalidFileId(file_id)
             THEN /\ container_name' = <<>>
                  /\ blob_path' = <<>>
                  /\ Settle(blob_service_client, <<>>, "none", <<>>, <<>>, "format",
                            "done", NoResp, -1)
             ELSE /\ container_name' = SplitOnceHead(file_id, SLASH)
                  /\ blob_path' = SplitOnceTail(file_id, SLASH)
                  /\ IF GetClientRaises
                     THEN Settle(blob_service_client, <<>>, "none", <<>>, <<>>,
                                 "client_config", "done", NoResp, -1)
                     ELSE \E out \in PropertiesOutcomesFor(SplitOnceHead(file_id, SLASH),
                                                            SplitOnceTail(file_id, SLASH)) :
                             IF out.raises = "ValueError"
                             THEN Settle(ResolvedClient, <<>>, "none", <<>>, <<>>,
                                         out.raises, "done", NoResp, -1)
                             ELSE IF out.raises # None
                             THEN Settle(ResolvedClient, <<>>, "none",
                                         <<PropertiesCall>>, <<>>, out.raises, "done",
                                         NoResp, -1)
                             ELSE IF IsArchive(out.value)
                             THEN Settle(ResolvedClient, <<out.value>>, "none",
                                         <<PropertiesCall>>, <<>>, "archive_tier",
                                         "done", NoResp, -1)
                             ELSE IF InvalidSize(out.value)
                             THEN Settle(ResolvedClient, <<out.value>>, "none",
                                         <<PropertiesCall>>, <<>>, "invalid_size",
                                         "done", NoResp, -1)
                             ELSE SelectStrategy(out.value)

\* ------------------------------------------------------------------------
\* _download_large_blob: one iteration of the range loop, and the tail
\* ------------------------------------------------------------------------
blob_size == IF Len(blob_properties) = 0 THEN 0 ELSE blob_properties[1].size

\* end_range - i + 1, with end_range = min(i + chunk_size - 1, blob_size - 1)
RangeLength(offset, size) == Min(offset + chunk_size - 1, size - 1) - offset + 1

\* variant: the threshold written with one factor of 1024 too many
LargeFlushDueAtGiB(buffered) == buffered > 1024 * MiB

\* len(downloaded_content) > 100 * 1024 * 1024
LargeFlushDue(buffered) == buffered > FlushLimit

KeepRequest ==
    UNCHANGED <<credentials, blob_service_client, op, request, container_name,
                blob_path, blob_properties, strategy, content, resp, page,
                response, next_page>>

LargeRangeRead ==
    /\ pc = "large_loop"
    /\ i < blob_size
    /\ KeepRequest
    /\ LET length == RangeLength(i, blob_size)
       IN  /\ calls' = Append(calls, Call("download_blob", i, length))
           /\ \/ \* download_blob(offset, length) / readall() raises
                 /\ pc' = "done"
                 /\ error' = "read_failed"
                 /\ UNCHANGED <<chunks, i, downloaded_content, total_downloaded>>
              \/ \E n \in ReadLens(length) :
                    /\ total_downloaded' = total_downloaded + n
                    /\ IF LargeFlushDue(downloaded_content + n)
                       THEN /\ chunks' = Append(chunks,
                                           BlobMessage(downloaded_content + n, "True"))
                            /\ downloaded_content' = 0
                       ELSE /\ chunks' = chunks
                            /\ downloaded_content' = downloaded_content + n
                    /\ i' = i + chunk_size
                    /\ UNCHANGED <<pc, error>>

\* variant: only an excess of bytes counted as a mismatch
IncompleteOnExcessOnly(total, size) == total > size

\* total_downloaded != blob_size
Incomplete(total, size) == total # size

LargeFinish ==
    /\ pc = "large_loop"
    /\ i >= blob_size
    /\ KeepRequest
    /\ pc' = "done"
    /\ UNCHANGED <<calls, i, total_downloaded>>
    /\ IF Incomplete(total_downloaded, blob_size)
       THEN /\ error' = "incomplete"
            /\ UNCHANGED <<chunks, downloaded_content>>
       ELSE /\ error' = None
            /\ downloaded_content' = downloaded_content
            /\ chunks' = IF downloaded_content > 0
                         THEN Append(chunks, BlobMessage(downloaded_content, "False"))
                         ELSE chunks

\* ------------------------------------------------------------------------
\* _download_via_sas_http: the streamed body
\* ------------------------------------------------------------------------
\* sizes of the next piece resp.iter_content(chunk_size) may deliver
Pieces(remaining) ==
    {n \in {Min(chunk_size, remaining), Min(chunk_size \div 2, remaining)} : n > 0}

\* len(buffer) >= 100 * 1024 * 1024
SasFlushDue(buffered) == buffered >= FlushLimit

KeepSas ==
    UNCHANGED <<credentials, blob_service_client, op, request, container_name,
                blob_path, blob_properties, strategy, calls, content, page,
                response, next_page, i, total_downloaded>>

SasStreamRead ==
    /\ pc = "sas_stream"
    /\ resp.remaining > 0
    /\ KeepSas
    /\ \/ \* the connection breaks while iterating the body
          /\ pc' = "done"
          /\ error' = "stream_failed"
          /\ UNCHANGED <<chunks, downloaded_content, resp>>
       \/ \E n \in Pieces(resp.remaining) :
             /\ resp' = [resp EXCEPT !.remaining = @ - n]
             /\ IF SasFlushDue(downloaded_content + n)
                THEN /\ chunks' = Append(chunks,
                                    BlobMessage(downloaded_content + n, "True"))
                     /\ downloaded_content' = 0
                ELSE /\ chunks' = chunks
                     /\ downloaded_content' = downloaded_content + n
             /\ UNCHANGED <<pc, error>>

SasStreamFinish ==
    /\ pc = "sas_stream"
    /\ resp.remaining = 0
    /\ KeepSas
    /\ pc' = "done"
    /\ error' = None
    /\ resp' = resp
    /\ downloaded_content' = downloaded_content
    /\ chunks' = IF downloaded_content > 0
                 THEN Append(chunks, BlobMessage(downloaded_content, "False"))
                 ELSE chunks

\* ------------------------------------------------------------------------
\* Browse: inputs and provider pages
\* ------------------------------------------------------------------------
A == "a"

\* request.bucket
Buckets == { <<>>, <<A>> }

\* request.prefix
BrowsePrefixes ==
    { <<>>, <<A>>, <<A, SLASH>>, <<A, SLASH, A>>, <<A, SLASH, A, SLASH>>, <<SLASH>> }

\* continuation tokens of a listing: Markers[k] is the marker the provider
\* gives with page k, and by_page(Markers[k]) starts at page k + 1
Markers == <<"t1">>

\* next_page_parameters.get("continuation_token") of a request
RequestTokens == {None} \cup {Markers[k] : k \in 1..Len(Markers)}

\* by_page(continuation_token) if continuation_token else by_page()
PassedToken(continuation_token) ==
    IF Truthy(continuation_token) THEN continuation_token ELSE None

\* index of the provider page that next(by_page(token)) returns
PageIndex(token) ==
    IF token = None THEN 1
    ELSE 1 + (CHOOSE k \in 1..Len(Markers) : Markers[k] = token)

\* the marker the provider gives with page p: none with the last page
MarkersOf(p) == IF p <= Len(Markers) THEN {None, Markers[p]} ELSE {None}

\* the pages next(...) may return for a request token: the entries, the
\* provider's marker for the page after this one, and the value of
\* getattr(page, 'continuation_token', None), which is the marker when the
\* page object carries that attribute and None when it does not
PagesOf(entries, token) ==
    LET index == PageIndex(PassedToken(token))
    IN  {[items |-> its, index |-> index, next_marker |-> mk.marker,
          continuation_token |-> IF mk.carried THEN mk.marker ELSE None] :
            its \in SeqsUpTo(entries, MaxPage),
            mk \in {m \in [marker : MarkersOf(index), carried : BOOLEAN] :
                       m.marker = None => m.carried}}

BrowseRequests ==
    {[bucket |-> b, prefix |-> p, next_page_parameters |-> t] :
        b \in Buckets, p \in BrowsePrefixes, t \in RequestTokens}

\* entries of a walk_blobs page: BlobPrefix (no size attribute), empty
\* marker blobs named like a directory, one non-empty blob so named, and
\* ordinary blobs
DirNames == { <<A, SLASH>>, <<A, A, SLASH>>, <<A, SLASH, A, SLASH>> }
BlobNames == { <<A>>, <<A, A>>, <<A, SLASH, A>> }

BlobItems ==
    {[name |-> n, kind |-> "BlobPrefix", size |-> 0] : n \in DirNames}
    \cup {[name |-> n, kind |-> "BlobProperties", size |-> 0] : n \in DirNames}
    \cup {[name |-> <<A, SLASH>>, kind |-> "BlobProperties", size |-> 1]}
    \cup {[name |-> n, kind |-> "BlobProperties", size |-> 1] : n \in BlobNames}

BlobPages(token) == PagesOf(BlobItems, token)

\* entries of a list_containers page
ContainerNames == { <<A>>, <<A, A>> }

ContainerPages(token) == PagesOf(ContainerNames, token)

\* exceptions a listing call may raise
ListingErrors == {"ResourceNotFoundError", "AzureError"}

\* OnlineDriveFile (id, name, size, type)
DriveFile(id, name, size, type) == [id |-> id, name |-> name, size |-> size, type |-> type]

BrowseCall(api, container, prefix, token, ok) ==
    [api |-> api, container |-> container, name_starts_with |-> prefix,
     continuation_token |-> token, ok |-> ok]

\* ------------------------------------------------------------------------
\* _list_blobs_in_container: the loop over one page
\* ------------------------------------------------------------------------
\* item_name[len(prefix):] if prefix and item_name.startswith(prefix) else item_name
DisplayName(item_name, prefix) ==
    IF Len(prefix) > 0 /\ StartsWith(item_name, prefix)
    THEN SubSeq(item_name, Len(prefix) + 1, Len(item_name))
    ELSE item_name

\* (item_name.endswith("/") and getattr(item, "size", 0) == 0)
\*     or type(item).__name__ == "BlobPrefix"
IsFolder(item) ==
    \/ EndsWithSlash(item.name) /\ item.size = 0
    \/ item.kind = "BlobPrefix"

\* display_name.rstrip("/"), then split("/", 1)[0] when it still holds a "/"
FirstDir(display_name) ==
    LET first_dir == RStripSlash(display_name)
    IN  IF Contains(first_dir, SLASH) THEN SplitOnceHead(first_dir, SLASH) ELSE first_dir

\* variant: the folder id built from the display name alone
DirIdWithoutPrefix(container, prefix, first_dir) ==
    container \o <<SLASH>> \o first_dir \o <<SLASH>>

\* f"{container_name}/{dir_path}" with dir_path = f"{prefix}{first_dir}/"
DirId(container, prefix, first_dir) ==
    container \o <<SLASH>> \o prefix \o first_dir \o <<SLASH>>

\* f"{container_name}/{item_name}"
FileId(container, item_name) == container \o <<SLASH>> \o item_name

\* variant: the name never recorded as seen
AddSeenForgotten(seen_dirs, first_dir) == seen_dirs

\* seen_dirs.add(first_dir)
AddSeen(seen_dirs, first_dir) == seen_dirs \cup {first_dir}

\* the body of `for item in page`, from entry k on, with the files and the
\* seen_dirs accumulated so far
RECURSIVE ListLoop(_, _, _, _, _, _)
ListLoop(items, k, container, prefix, files, seen_dirs) ==
    IF k > Len(items) THEN files
    ELSE
        LET item == items[k]
            display_name == DisplayName(item.name, prefix)
            first_dir == FirstDir(display_name)
        IN  IF Len(item.name) = 0
            THEN ListLoop(items, k + 1, container, prefix, files, seen_dirs)
            ELSE IF IsFolder(item)
            THEN IF Len(first_dir) > 0 /\ first_dir \notin seen_dirs
                 THEN ListLoop(items, k + 1, container, prefix,
                               Append(files, DriveFile(DirId(container, prefix, first_dir),
                                                       first_dir, 0, "folder")),
                               AddSeen(seen_dirs, first_dir))
                 ELSE ListLoop(items, k + 1, container, prefix, files, seen_dirs)
            ELSE IF Contains(display_name, SLASH)
            THEN ListLoop(items, k + 1, container, prefix, files, seen_dirs)
            ELSE ListLoop(items, k + 1, container, prefix,
                          Append(files, DriveFile(FileId(container, item.name),
                                                  display_name, item.size, "file")),
                          seen_dirs)

\* is_truncated and next_page_parameters from getattr(page, 'continuation_token', None)
BucketResponse(bucket, files, new_continuation_token) ==
    [bucket |-> bucket, files |-> files,
     is_truncated |-> (new_continuation_token # None),
     next_page_parameters |-> new_continuation_token]

\* _list_blobs_in_container(client, container_name, prefix, max_keys, params)
ListBlobsInContainer(container, prefix, pg) ==
    BucketResponse(container, ListLoop(pg.items, 1, container, prefix, <<>>, {}),
                   pg.continuation_token)

\* _list_containers(client, max_keys, params): one folder entry per container
ListContainers(pg) ==
    BucketResponse(<<>>,
                   [k \in 1..Len(pg.items) |->
                       DriveFile(pg.items[k], pg.items[k], 0, "folder")],
                   pg.continuation_token)

\* ------------------------------------------------------------------------
\* _browse_files
\* ------------------------------------------------------------------------
\* prefix.strip('/').split('/')[0]
PotentialContainer(prefix) == SplitSlash(StripSlash(prefix))[1]

\* '/'.join(prefix_parts[1:]) if len(prefix_parts) > 1 else ""
RemainingPrefix(prefix) ==
    LET prefix_parts == SplitSlash(StripSlash(prefix))
    IN  IF Len(prefix_parts) > 1 THEN JoinSlash(Tail(prefix_parts)) ELSE <<>>

\* not bucket_name and prefix
RecoveryApplies(req) == Len(req.bucket) = 0 /\ Len(req.prefix) > 0

\* every variable a browse call decides
BrowseSettle(client, bucket, prefix, cs, err, pg, res) ==
    /\ blob_service_client' = client
    /\ container_name' = bucket
    /\ blob_path' = prefix
    /\ calls' = cs
    /\ error' = err
    /\ page' = pg
    /\ response' = res
    /\ pc' = "done"
    /\ blob_properties' = <<>>
    /\ strategy' = "none"
    /\ chunks' = <<>>
    /\ content' = -1
    /\ resp' = NoResp
    /\ NoLoop

\* the listing half of _browse_files, with the bucket and prefix in effect
BrowseListing(req, bucket, prefix, before) ==
    LET token == PassedToken(req.next_page_parameters)
    IN  IF Len(bucket) = 0
        THEN \/ \E e \in ListingErrors :
                   BrowseSettle(ResolvedClient, bucket, prefix,
                                Append(before, BrowseCall("list_containers", <<>>, <<>>,
                                                          token, FALSE)),
                                e, NoPage, NoResponse)
             \/ \E pg \in ContainerPages(token) :
                   BrowseSettle(ResolvedClient, bucket, prefix,
                                Append(before, BrowseCall("list_containers", <<>>, <<>>,
                                                          token, TRUE))
                                \o [k \in 1..Len(pg.items) |->
                                      BrowseCall("get_container_properties",
                                                 pg.items[k], <<>>, None, TRUE)],
                                None, pg, ListContainers(pg))
        ELSE \/ \E e \in ListingErrors :
                   BrowseSettle(ResolvedClient, bucket, prefix,
                                Append(before, BrowseCall("walk_blobs", bucket, prefix,
                                                          token, FALSE)),
                                e, NoPage, NoResponse)
             \/ \E pg \in BlobPages(token) :
                   BrowseSettle(ResolvedClient, bucket, prefix,
                                Append(before, BrowseCall("walk_blobs", bucket, prefix,
                                                          token, TRUE)),
                                None, pg, ListBlobsInContainer(bucket, prefix, pg))

\* get_container_properties() of the candidate container, with its outcome
LookupCall(potential_container, ok) ==
    BrowseCall("get_container_properties", potential_container, <<>>, None, ok)

\* the requests the host may send: a first-page request when it holds no
\* next-page request, and otherwise the one it holds, with the bucket and
\* prefix of the call that returned the token
HostMayAsk(req) ==
    IF next_page = NoNextPage
    THEN req.next_page_parameters = None
    ELSE /\ req.bucket = next_page.bucket
         /\ req.prefix = next_page.prefix
         /\ req.next_page_parameters = next_page.next_page_parameters

BrowseFiles ==
    /\ pc = "idle"
    /\ \E req \in BrowseRequests :
          /\ HostMayAsk(req)
          /\ StartRequest("browse", req)
          /\ credentials' = credentials
          /\ IF GetClientRaises
             THEN BrowseSettle(blob_service_client, req.bucket, req.prefix, <<>>,
                               "client_config", NoPage, NoResponse)
             ELSE IF RecoveryApplies(req)
             THEN LET potential_container == PotentialContainer(req.prefix)
                  IN  \/ \* the container exists: use the parsed values
                         /\ Len(potential_container) > 0
                         /\ BrowseListing(req, potential_container,
                                          RemainingPrefix(req.prefix),
                                          <<LookupCall(potential_container, TRUE)>>)
                      \/ \* the lookup raised: keep the original values
                         BrowseListing(req, req.bucket, req.prefix,
                                       <<LookupCall(potential_container, FALSE)>>)
             ELSE BrowseListing(req, req.bucket, req.prefix, <<>>)

\* the handler has returned or raised: its locals are gone, the adapter
\* instance (credentials, cached client) waits for the next request; the
\* host keeps the next_page_parameters of a truncated response to ask for
\* the next page, or drops them
Return ==
    /\ pc = "done"
    /\ pc' = "idle"
    /\ op' = "none"
    /\ request' = <<>>
    /\ container_name' = <<>>
    /\ blob_path' = <<>>
    /\ blob_properties' = <<>>
    /\ strategy' = "none"
    /\ calls' = <<>>
    /\ chunks' = <<>>
    /\ error' = None
    /\ content' = -1
    /\ resp' = NoResp
    /\ page' = NoPage
    /\ response' = NoResponse
    /\ NoLoop
    /\ \/ next_page' = NoNextPage
       \/ /\ op = "browse"
          /\ response.is_truncated
          /\ next_page' = [bucket |-> request.bucket, prefix |-> request.prefix,
                           next_page_parameters |-> response.next_page_parameters,
                           container |-> container_name, path |-> blob_path,
                           index |-> page.index]
    /\ UNCHANGED <<credentials, blob_service_client>>

Next ==
    \/ BrowseFiles
    \/ DownloadFile
    \/ LargeRangeRead
    \/ LargeFinish
    \/ SasStreamRead
    \/ SasStreamFinish
    \/ Return

Spec == Init /\ [][Next]_vars

\* ========================================================================
\* Properties
\* ========================================================================
Download == op = "download"

\* the properties lookup returned a value
HasProperties == Len(blob_properties) = 1

Props == blob_properties[1]

ArchiveSpellings ==
    { <<"A", "r", "c", "h", "i", "v", "e">>,
      <<"a", "r", "c", "h", "i", "v", "e">>,
      <<"A", "R", "C", "H", "I", "V", "E">> }

\* the properties pass validation: not archive, size present and not negative
PassesValidation ==
    /\ HasProperties
    /\ Props.blob_tier \notin ArchiveSpellings
    /\ ~Props.size_is_none
    /\ Props.size >= 0

\* the content-transfer calls issued so far, by kind
IsHttpGet(c) == c.api = "http_get"
IsWholeRead(c) == c.api = "download_blob" /\ c.offset = -1
IsRangeRead(c) == c.api = "download_blob" /\ c.offset >= 0
IsTransfer(c) == c.api \in {"http_get", "download_blob"}

TransferCalls == {k \in 1..Len(calls) : IsTransfer(calls[k])}

\* the strategy the documented rule selects
ExpectedStrategy ==
    IF credentials.auth_method = "sas_token" THEN "sas_http"
    ELSE IF Props.size > 50 * 1024 * 1024 THEN "large"
    ELSE "small"

\* C1: a download with a well-formed id whose properties pass validation runs
\* exactly one strategy: direct HTTP under sas_token whatever the size,
\* otherwise chunked exactly when the size exceeds 50 MiB, else single-shot;
\* every transfer call issued belongs to that strategy.
C1_StrategySelection ==
    (Download /\ PassesValidation) =>
        /\ Contains(request, SLASH)
        /\ strategy = ExpectedStrategy
        /\ \A k \in TransferCalls :
              CASE strategy = "sas_http" -> IsHttpGet(calls[k])
                [] strategy = "large" -> IsRangeRead(calls[k])
                [] strategy = "small" -> IsWholeRead(calls[k])
                [] OTHER -> FALSE
        /\ strategy \in {"sas_http", "small"} => Cardinality(TransferCalls) <= 1

\* C1 witness: a blob one byte over 50 MiB went through the chunked path to
\* the end
C1_Witness ==
    /\ Download /\ pc = "done" /\ error = None
    /\ PassesValidation
    /\ Props.size = SmallLimit + 1
    /\ strategy = "large"
    /\ Cardinality(TransferCalls) = 7

\* C2: a download of an archive-tier blob (any letter case), or of a blob
\* whose size is absent or negative, has failed, emitted no chunk, and issued
\* no provider call but the properties lookup, under every auth mode.
C2_ArchiveOrInvalidSizeRejected ==
    (Download /\ HasProperties /\ ~PassesValidation) =>
        /\ pc = "done"
        /\ error # None
        /\ chunks = <<>>
        /\ calls = <<PropertiesCall>>
        /\ strategy = "none"

\* C2 witness: an upper-case archive tier rejected under sas_token
C2_Witness ==
    /\ Download /\ HasProperties
    /\ credentials.auth_method = "sas_token"
    /\ Props.blob_tier = <<"A", "R", "C", "H", "I", "V", "E">>
    /\ Props.size = 5
    /\ error = "archive_tier"

\* C3: a download request whose id has no '/' fails with the format error in
\* the same step, without resolving the client, without any provider call
\* and without a chunk.
C3_NoSlashRejectedBeforeNetwork ==
    [][(pc = "idle" /\ op' = "download" /\ ~Contains(request', SLASH)) =>
          /\ pc' = "done"
          /\ error' = "format"
          /\ blob_service_client' = blob_service_client
          /\ calls' = <<>>
          /\ blob_properties' = <<>>
          /\ chunks' = <<>>]_vars

\* C3 witness: the id "c" was rejected while the client is still unresolved
C3_Witness ==
    /\ Download /\ request = <<"c">>
    /\ error = "format"
    /\ blob_service_client = None
    /\ calls = <<>>

\* the range reads issued so far, in order
RangeCalls == SelectSeq(calls, IsRangeRead)

\* the k-th range read starts where the (k-1)-th ended and is 8 MiB long,
\* but for the last one, which stops at the declared size
RangesInOrder ==
    \A k \in 1..Len(RangeCalls) :
        /\ RangeCalls[k].offset = (k - 1) * (8 * 1024 * 1024)
        /\ RangeCalls[k].length > 0
        /\ RangeCalls[k].length <= 8 * 1024 * 1024
        /\ RangeCalls[k].offset + RangeCalls[k].length <= Props.size
        /\ k < Len(RangeCalls) => RangeCalls[k].length = 8 * 1024 * 1024

\* the range reads issued reach the declared size
RangesCoverSize ==
    /\ Len(RangeCalls) > 0
    /\ RangeCalls[Len(RangeCalls)].offset + RangeCalls[Len(RangeCalls)].length
         = Props.size

AllPartial(cs) == \A k \in 1..Len(cs) : cs[k].is_partial = "True"

\* C4: in the chunked path the 8 MiB ranges are read in increasing order and
\* cover [0, size) exactly once; the download succeeds iff the cumulative
\* bytes read equal the declared size, and then the emitted chunks sum to
\* the declared size; on a mismatch it fails with the completeness error,
\* the buffered bytes stay unemitted and the partial chunks emitted before
\* are still there.
C4_ChunkedCompleteness ==
    (Download /\ strategy = "large") =>
        /\ RangesInOrder
        /\ pc = "done" =>
              /\ (error = None) <=> (total_downloaded = Props.size)
              /\ error = None =>
                    /\ RangesCoverSize
                    /\ SumLen(chunks) = Props.size
              /\ (error # None /\ RangesCoverSize /\ error # "read_failed") =>
                    /\ error = "incomplete"
                    /\ AllPartial(chunks)
                    /\ SumLen(chunks) + downloaded_content = total_downloaded
        /\ pc = "large_loop" =>
              SumLen(chunks) + downloaded_content = total_downloaded

\* C4 witness: a mismatch found after a partial chunk went out, with bytes
\* left in the buffer
C4_Witness ==
    /\ Download /\ strategy = "large" /\ pc = "done"
    /\ error = "incomplete"
    /\ Len(chunks) = 1
    /\ downloaded_content > 0
    /\ total_downloaded = Props.size - 1

\* the body was streamed through the accumulation buffer
Streamed ==
    \/ strategy = "large"
    \/ /\ strategy = "sas_http"
       /\ resp.status = 200
       /\ ~(0 < resp.content_length /\ resp.content_length <= 50 * 1024 * 1024)

\* C5: in both buffered streaming paths a download that completed
\* successfully has every chunk before the last marked is_partial=true and
\* the last chunk marked is_partial=false, for every size; a chunked download
\* of more than 100 MiB has emitted at least two chunks.
C5_LastChunkNotPartial ==
    (Download /\ pc = "done" /\ error = None /\ Streamed /\ Len(chunks) > 0) =>
        /\ chunks[Len(chunks)].is_partial = "False"
        /\ AllPartial(SubSeq(chunks, 1, Len(chunks) - 1))
        /\ (strategy = "large" /\ Props.size > 100 * 1024 * 1024) => Len(chunks) >= 2

\* C6: in the single-shot path a read of zero bytes fails the download with
\* the empty-content error and no chunk, also for a declared size of 0; a
\* read of n > 0 bytes succeeds with exactly one chunk of n bytes, whether
\* or not n is the declared size.
C6_SingleShot ==
    (Download /\ strategy = "small" /\ content >= 0) =>
        /\ pc = "done"
        /\ calls = <<PropertiesCall, WholeReadCall>>
        /\ IF content = 0
           THEN error = "empty_content" /\ chunks = <<>>
           ELSE error = None /\ Len(chunks) = 1 /\ chunks[1].len = content

\* C6 witness: a declared 5-byte blob whose read returned 7 bytes
C6_Witness ==
    /\ Download /\ strategy = "small" /\ pc = "done"
    /\ Props.size = 5
    /\ content = 7
    /\ error = None
    /\ Len(chunks) = 1

\* C7: in the direct-HTTP path a 2xx response with a known Content-Length of
\* at most 50 MiB ends with exactly one chunk holding the whole body and no
\* streamed chunk; a non-2xx status fails the download without a chunk.
C7_SasOneShotChunk ==
    (Download /\ strategy = "sas_http" /\ pc = "done") =>
        /\ (resp.status = 200 /\ resp.header = "digits"
              /\ resp.content_length <= 50 * 1024 * 1024) =>
              /\ error = None
              /\ Len(chunks) = 1
              /\ chunks[1].len = Props.size
              /\ chunks[1].is_partial = "absent"
        /\ resp.status \in {403, 404} => error # None /\ chunks = <<>>

\* a blob-listing page was returned to the host
BlobListed ==
    /\ op = "browse" /\ pc = "done" /\ error = None
    /\ Len(container_name) > 0

Items == page.items
Files == response.files

\* the first-level folder name of page entry k under the prefix in effect
Level1(k) == FirstDir(DisplayName(Items[k].name, blob_path))

\* page entry k is a directory entry with a first-level name
NamedFolder(k) == Len(Items[k].name) > 0 /\ IsFolder(Items[k]) /\ Len(Level1(k)) > 0

\* page entry k is the first directory entry of its first-level name
FirstOfItsName(k) ==
    /\ NamedFolder(k)
    /\ \A j \in 1..(k - 1) : NamedFolder(j) => Level1(j) # Level1(k)

\* page entry k is a blob of the listed level
LevelFile(k) ==
    /\ Len(Items[k].name) > 0
    /\ ~IsFolder(Items[k])
    /\ ~Contains(DisplayName(Items[k].name, blob_path), SLASH)

\* the page entries that produce an output entry, and the m-th of them
Emitting == {k \in 1..Len(Items) : FirstOfItsName(k) \/ LevelFile(k)}
EmittingAt(m) == CHOOSE k \in Emitting : Cardinality({j \in Emitting : j <= k}) = m

\* C8: within one blob-listing page no two folder entries share a
\* first-level name, whatever the provider returned; each first-level folder
\* name is emitted once, at the position of the first page entry that has it.
C8_FolderDedup ==
    BlobListed =>
        /\ \A j, k \in 1..Len(Files) :
              (j # k /\ Files[j].type = "folder" /\ Files[k].type = "folder")
                  => Files[j].name # Files[k].name
        /\ Len(Files) = Cardinality(Emitting)
        /\ \A m \in 1..Len(Files) :
              IF FirstOfItsName(EmittingAt(m))
              THEN Files[m].type = "folder" /\ Files[m].name = Level1(EmittingAt(m))
              ELSE Files[m].type = "file"
                   /\ Files[m].id = container_name \o <<SLASH>> \o Items[EmittingAt(m)].name

\* C8 witness: two different directory entries of one page with the same
\* first-level name gave a single folder entry
C8_Witness ==
    /\ BlobListed
    /\ Len(Items) = 2
    /\ Items[1].name # Items[2].name
    /\ NamedFolder(1) /\ NamedFolder(2)
    /\ Level1(1) = Level1(2)
    /\ Len(Files) = 1
    /\ Files[1].type = "folder"

\* C9: a file entry has id container + "/" + blob path, a name that is the
\* blob path without the request prefix and holds no '/'; a blob of a deeper
\* level is not listed as a file; a folder entry has id
\* container + "/" + prefix + first-level segment + "/".
C9_EntryIds ==
    BlobListed =>
        /\ \A m \in 1..Len(Files) :
              IF Files[m].type = "file"
              THEN /\ ~Contains(Files[m].name, SLASH)
                   /\ \E k \in 1..Len(Items) :
                         /\ Files[m].id = container_name \o <<SLASH>> \o Items[k].name
                         /\ IF StartsWith(Items[k].name, blob_path)
                            THEN blob_path \o Files[m].name = Items[k].name
                            ELSE Files[m].name = Items[k].name
              ELSE /\ Files[m].type = "folder"
                   /\ Len(Files[m].name) > 0
                   /\ ~Contains(Files[m].name, SLASH)
                   /\ Files[m].id = container_name \o <<SLASH>> \o blob_path
                                      \o Files[m].name \o <<SLASH>>
                   /\ Files[m].id[Len(Files[m].id)] = SLASH
        /\ \A k \in 1..Len(Items) :
              (StartsWith(Items[k].name, blob_path)
                 /\ Contains(SubSeq(Items[k].name, Len(blob_path) + 1, Len(Items[k].name)),
                             SLASH))
              => ~\E m \in 1..Len(Files) :
                     /\ Files[m].type = "file"
                     /\ Files[m].id = container_name \o <<SLASH>> \o Items[k].name

\* C9 witness: under the prefix "a/" the page gave the folder "a" and the
\* file "a"
C9_Witness ==
    /\ BlobListed
    /\ blob_path = <<A, SLASH>>
    /\ Len(Files) = 2
    /\ Files[1] = [id |-> <<A, SLASH, A, SLASH, A, SLASH>>, name |-> <<A>>, size |-> 0,
                   type |-> "folder"]
    /\ Files[2] = [id |-> <<A, SLASH, A, SLASH, A>>, name |-> <<A>>, size |-> 1,
                   type |-> "file"]

\* the prefix has the form "c/x" with a non-empty c
HasContainerForm(prefix) == Contains(prefix, SLASH) /\ Len(SplitOnceHead(prefix, SLASH)) > 0

IsLookup(c) == c.api = "get_container_properties" /\ c.continuation_token = None

\* C10: a browse call with an empty bucket and a prefix "c/x" lists blobs of
\* container c under the prefix x when the properties lookup of c succeeds,
\* and lists the top-level containers, without surfacing the lookup failure,
\* when it fails; a call with a bucket performs no lookup and uses bucket
\* and prefix unchanged.
C10_ContainerRecovery ==
    (op = "browse" /\ pc = "done" /\ Len(calls) > 0) =>
        IF Len(request.bucket) = 0
        THEN HasContainerForm(request.prefix) =>
                LET c == SplitOnceHead(request.prefix, SLASH)
                    x == SplitOnceTail(request.prefix, SLASH)
                IN  /\ Len(calls) >= 2
                    /\ calls[1].api = "get_container_properties"
                    /\ calls[1].container = c
                    /\ IF calls[1].ok
                       THEN /\ calls[2].api = "walk_blobs"
                            /\ calls[2].container = c
                            /\ calls[2].name_starts_with = x
                            /\ error = None => response.bucket = c
                       ELSE /\ calls[2].api = "list_containers"
                            /\ calls[2].ok => (error = None /\ response.bucket = <<>>)
        ELSE /\ calls = <<BrowseCall("walk_blobs", request.bucket, request.prefix,
                                     request.next_page_parameters, error = None)>>
             /\ container_name = request.bucket
             /\ blob_path = request.prefix

\* ------------------------------------------------------------------------
\* C12
\* ------------------------------------------------------------------------
Completed == Download /\ pc = "done" /\ error = None

\* C12: every download that completes without an error has emitted one or
\* more chunks, whichever strategy carried it and whatever the declared
\* size or the body length, an empty body and a missing or unreadable
\* Content-Length of the direct-HTTP path included.
C12_SuccessHasChunk == Completed => Len(chunks) >= 1

\* ------------------------------------------------------------------------
\* C14
\* ------------------------------------------------------------------------
\* the threshold plus the one read that crossed it
BufferCeiling == FlushLimit + chunk_size

\* this step emitted one more chunk, marked partial
PartialEmitted ==
    /\ Len(chunks') = Len(chunks) + 1
    /\ chunks'[Len(chunks')].is_partial = "True"

\* C14: in the chunked path and in the streamed direct-HTTP path the bytes
\* held by the adapter are bounded by the 100 MiB threshold, not by the
\* object size: after every read the buffer left behind holds at most
\* 100 MiB, a buffer that a read brought above it having been emitted and
\* reset; the buffer at its fullest, the one handed over as a chunk, holds
\* at most 100 MiB plus one 8 MiB read; and the buffer is empty right after
\* each partial chunk is emitted.
C14_BufferBounded ==
    [][ Streamed' =>
          /\ downloaded_content' <= FlushLimit
          /\ \A k \in 1..Len(chunks') : chunks'[k].len <= BufferCeiling
          /\ PartialEmitted =>
                /\ downloaded_content' = 0
                /\ chunks'[Len(chunks')].len >= FlushLimit
                /\ chunks'[Len(chunks')].len = downloaded_content +
                        (IF strategy = "large"
                         THEN total_downloaded' - total_downloaded
                         ELSE resp.remaining - resp'.remaining) ]_vars

C14_Witness ==
    /\ strategy = "large"
    /\ pc = "large_loop"
    /\ i < blob_size
    /\ Len(chunks) = 1
    /\ chunks[1].is_partial = "True"
    /\ chunks[1].len > FlushLimit
    /\ downloaded_content = 0

\* ------------------------------------------------------------------------
\* C13
\* ------------------------------------------------------------------------
\* nothing follows the first '/' of the id
EmptyBlobPath(id) == Contains(id, SLASH) /\ Len(SplitOnceTail(id, SLASH)) = 0

\* C13: a download whose id has an empty blob path is rejected as a format
\* error, like an id with no '/': no properties lookup, no transfer call,
\* no chunk.  For every accepted id the container is the text before the
\* first '/' and the blob path everything after it, later '/' included.
C13_EmptyBlobPathRejected ==
    Download =>
        /\ EmptyBlobPath(request) =>
               (error = "format" /\ calls = <<>> /\ chunks = <<>>)
        /\ error # "format" =>
               /\ ~Contains(container_name, SLASH)
               /\ container_name \o <<SLASH>> \o blob_path = request

\* ------------------------------------------------------------------------
\* C11
\* ------------------------------------------------------------------------
\* a browse call returned a page (of containers or of blobs)
Listed == op = "browse" /\ pc = "done" /\ error = None

\* the by_page call of the current request
ListingCall ==
    calls[CHOOSE k \in 1..Len(calls) : calls[k].api \in {"list_containers", "walk_blobs"}]

\* the response reports the provider's marker: truncated exactly when the
\* page has one, with the marker itself as the next-page token
MarkerSurfaced ==
    /\ response.is_truncated <=> (page.next_marker # None)
    /\ response.next_page_parameters = page.next_marker

\* the host asks for the page after the one it holds a token for, and the
\* same listing is in effect
FollowsUp ==
    /\ pc = "idle"
    /\ next_page # NoNextPage
    /\ Listed'
    /\ container_name' = next_page.container
    /\ blob_path' = next_page.path

\* C11: for container and blob listing alike, a response is truncated if
\* and only if the provider page has a continuation token, and then the
\* next-page parameters hold that token verbatim (none otherwise); a first
\* call returns the first provider page, and a call fed the token of the
\* previous call, with the same bucket and prefix, returns the page after
\* it: following the tokens until a response is not truncated visits the
\* provider pages 1, 2, ... up to the last, each once and in order.
C11_PaginationRoundTrip ==
    [][ /\ Listed' => MarkerSurfaced'
        /\ (Listed' /\ request'.next_page_parameters = None) => page'.index = 1
        /\ FollowsUp =>
              /\ ListingCall'.continuation_token = next_page.next_page_parameters
              /\ page'.index = next_page.index + 1 ]_vars

====
